---- MODULE Spec2Model ----
(***************************************************************************)
(* Model of the task manager of GonMCPtool: the persisted task collection  *)
(* (tasks.json), the TaskManagerTool operations that load it, mutate it in *)
(* memory and save it, the clock they read and the id generator they use.  *)
(* Timestamps are points of a discrete clock; ids are the successive       *)
(* values of a generator that never repeats.                               *)
(***************************************************************************)
EXTENDS Integers, Sequences, FiniteSets, TLC

(* ------------------------------ bounds --------------------------------- *)
MaxTime == 4          \* the clock runs over 0..MaxTime: one reading per call
MaxIds == 3           \* ids the generator hands out: 1..MaxIds
MaxTasks == 2         \* tasks kept in the store at once

(* ------------------------- TaskStatus (enum) --------------------------- *)
PENDING == "pending"
IN_PROGRESS == "in_progress"
COMPLETED == "completed"
CANCELLED == "cancelled"
TaskStatus == {PENDING, IN_PROGRESS, COMPLETED, CANCELLED}

\* an optional date or number that is not present on the object
undefined == -1

VARIABLES
  tasks,      \* content of tasks.json: the ordered task collection
  now,        \* the clock read by new Date()
  nextId,     \* next value of the id generator (uuidv4)
  last,       \* the last call made and how it ended
  startedIds, \* history: ids of the tasks on which startTask has succeeded
  inFlight,   \* the calls that have begun and not yet returned, per caller
  damaged     \* tasks.json was left cut short by a write that broke off

vars == <<tasks, now, nextId, last, startedIds, inFlight, damaged>>

(* ------------------------------ helpers -------------------------------- *)
\* tasks.findIndex(t => t.id === id): 0 stands for -1 (not found)
findIndex(ts, id) ==
  IF \E i \in 1..Len(ts) : ts[i].id = id
  THEN CHOOSE i \in 1..Len(ts) : ts[i].id = id /\ \A j \in 1..(i-1) : ts[j].id # id
  ELSE 0

\* { ...obj, ...updates }: every key present in updates replaces obj's value
Spread(obj, updates) ==
  [f \in DOMAIN obj |-> IF f \in DOMAIN updates THEN updates[f] ELSE obj[f]]

\* the task with this id in the store (callers check findIndex first)
TaskOf(id) == tasks[findIndex(tasks, id)]

Outcome(op, id, res) == [op |-> op, id |-> id, res |-> res]

\* new Date(): every call is made at a later clock reading than the call before
Clock == now < MaxTime /\ now' = now + 1

\* a call that runs from its readTasks to its writeTasks with no other call in
\* between and no I/O failure
Atomic == UNCHANGED <<inFlight, damaged>>

(* ------------------------------ createTask ----------------------------- *)
\* variant of newSteps that gives every step of the task the same id
newSteps_sameId(steps, firstId) ==
  [k \in 1..Len(steps) |->
     [id |-> firstId,
      description |-> steps[k].description,
      order |-> IF "order" \in DOMAIN steps[k] THEN steps[k].order ELSE k,
      completed |-> IF "completed" \in DOMAIN steps[k] THEN steps[k].completed ELSE FALSE,
      estimatedTime |-> IF "estimatedTime" \in DOMAIN steps[k]
                        THEN steps[k].estimatedTime ELSE undefined]]

\* steps.map((step, index) => ({...step, id, order ?? index+1, completed ?? false}))
newSteps(steps, firstId) ==
  [k \in 1..Len(steps) |->
     [id |-> firstId + k - 1,
      description |-> steps[k].description,
      order |-> IF "order" \in DOMAIN steps[k] THEN steps[k].order ELSE k,
      completed |-> IF "completed" \in DOMAIN steps[k] THEN steps[k].completed ELSE FALSE,
      estimatedTime |-> IF "estimatedTime" \in DOMAIN steps[k]
                        THEN steps[k].estimatedTime ELSE undefined]]

\* variant of newTask that leaves updatedAt for the first update to set
newTask_noUpdatedAt(title, description, steps, tags, plannedStartDate, priority) ==
  [id |-> nextId + Len(steps),
   title |-> title,
   description |-> description,
   steps |-> newSteps(steps, nextId),
   tags |-> tags,
   createdAt |-> now,
   plannedStartDate |-> plannedStartDate,
   updatedAt |-> undefined,
   dueDate |-> undefined,
   actualStartDate |-> undefined,
   actualCompletionDate |-> undefined,
   status |-> PENDING,
   priority |-> priority]

\* the task object createTask builds: it has no dueDate member
newTask(title, description, steps, tags, plannedStartDate, priority) ==
  [id |-> nextId + Len(steps),
   title |-> title,
   description |-> description,
   steps |-> newSteps(steps, nextId),
   tags |-> tags,
   createdAt |-> now,
   plannedStartDate |-> plannedStartDate,
   updatedAt |-> now,
   dueDate |-> undefined,
   actualStartDate |-> undefined,
   actualCompletionDate |-> undefined,
   status |-> PENDING,
   priority |-> priority]

\* variant of invalidArguments that takes the ends of the priority range as invalid
invalidArguments_exclusive(title, description, priority) ==
  title = "" \/ description = "" \/ priority <= 1 \/ priority >= 5

\* if (!title || !description) throw; if (priority < 1 || priority > 5) throw
invalidArguments(title, description, priority) ==
  title = "" \/ description = "" \/ priority < 1 \/ priority > 5

createTask(title, description, steps, tags, dueDate, plannedStartDate, priority) ==
  /\ Clock
  /\ Atomic
  /\ IF invalidArguments(title, description, priority)
     THEN /\ last' = Outcome("createTask", 0, "ValidationError")
          /\ UNCHANGED <<tasks, nextId, startedIds>>
     ELSE /\ Len(tasks) < MaxTasks
          /\ nextId + Len(steps) <= MaxIds
          /\ tasks' = Append(tasks, newTask(title, description, steps, tags,
                                            plannedStartDate, priority))
          /\ nextId' = nextId + Len(steps) + 1
          /\ last' = Outcome("createTask", nextId + Len(steps), "ok")
          /\ UNCHANGED startedIds

(* ------------------------------ getTaskById --------------------------- *)
\* tasks.find(t => t.id === id) || null: a read, the store is not written
getTaskById(id) ==
  /\ last' = Outcome("getTaskById", id, IF findIndex(tasks, id) = 0 THEN "absent" ELSE "ok")
  /\ Atomic
  /\ UNCHANGED <<tasks, now, nextId, startedIds>>

(* ------------------------------ startTask ------------------------------ *)
\* variant of canStart that only refuses finished tasks
canStart_unfinished(task) == task.status \notin {COMPLETED, CANCELLED}

\* if (task.status !== TaskStatus.PENDING) throw
canStart(task) == task.status = PENDING

\* task.status = IN_PROGRESS; task.actualStartDate = now; task.updatedAt = now
markStarted(task) ==
  [task EXCEPT !.status = IN_PROGRESS, !.actualStartDate = now, !.updatedAt = now]

startTask(taskId) ==
  /\ Clock
  /\ Atomic
  /\ LET taskIndex == findIndex(tasks, taskId) IN
     IF taskIndex = 0
     THEN /\ last' = Outcome("startTask", taskId, "absent")
          /\ UNCHANGED <<tasks, nextId, startedIds>>
     ELSE IF ~canStart(tasks[taskIndex])
     THEN /\ last' = Outcome("startTask", taskId, "StateTransitionError")
          /\ UNCHANGED <<tasks, nextId, startedIds>>
     ELSE /\ tasks' = [tasks EXCEPT ![taskIndex] = markStarted(@)]
          /\ startedIds' = startedIds \cup {taskId}
          /\ last' = Outcome("startTask", taskId, "ok")
          /\ UNCHANGED nextId

(* ------------------------------ updateTask ----------------------------- *)
\* variant of rejectsCompleted that lets a completion through when other fields come with it
rejectsCompleted_alone(updates) ==
  DOMAIN updates = {"status"} /\ updates.status = COMPLETED

\* if (updates.status === TaskStatus.COMPLETED) throw
rejectsCompleted(updates) ==
  "status" \in DOMAIN updates /\ updates.status = COMPLETED

\* variant of merged that lets the updates have the last word on updatedAt
merged_updatesLast(task, updates) ==
  Spread([task EXCEPT !.updatedAt = now], updates)

\* { ...tasks[taskIndex], ...updates, updatedAt: new Date().toISOString() }
merged(task, updates) ==
  [Spread(task, updates) EXCEPT !.updatedAt = now]

updateTask(id, updates) ==
  /\ Clock
  /\ Atomic
  /\ LET taskIndex == findIndex(tasks, id) IN
     IF taskIndex = 0
     THEN /\ last' = Outcome("updateTask", id, "absent")
          /\ UNCHANGED <<tasks, nextId, startedIds>>
     ELSE IF rejectsCompleted(updates)
     THEN /\ last' = Outcome("updateTask", id, "ValidationError")
          /\ UNCHANGED <<tasks, nextId, startedIds>>
     ELSE /\ tasks' = [tasks EXCEPT ![taskIndex] =
                         merged(@, updates)]
          /\ last' = Outcome("updateTask", id, "ok")
          /\ UNCHANGED <<nextId, startedIds>>

(* ----------------------------- completeTask ---------------------------- *)
\* completionDate || new Date().toISOString()
completionTime(completionDate) ==
  IF completionDate = undefined THEN now ELSE completionDate

\* variant of markCompleted that also ticks every step off
markCompleted_withSteps(task, completionDate) ==
  [task EXCEPT !.status = COMPLETED,
               !.actualCompletionDate = completionTime(completionDate),
               !.updatedAt = now,
               !.steps = [k \in 1..Len(@) |-> [@[k] EXCEPT !.completed = TRUE]]]

\* task.status = COMPLETED; task.actualCompletionDate = now; task.updatedAt = new Date()
markCompleted(task, completionDate) ==
  [task EXCEPT !.status = COMPLETED,
               !.actualCompletionDate = completionTime(completionDate),
               !.updatedAt = now]

completeTask(taskId, completionDate) ==
  /\ Clock
  /\ Atomic
  /\ LET taskIndex == findIndex(tasks, taskId) IN
     IF taskIndex = 0
     THEN /\ last' = Outcome("completeTask", taskId, "absent")
          /\ UNCHANGED <<tasks, nextId, startedIds>>
     ELSE /\ tasks' = [tasks EXCEPT ![taskIndex] =
                         markCompleted(@, completionDate)]
          /\ last' = Outcome("completeTask", taskId, "ok")
          /\ UNCHANGED <<nextId, startedIds>>

(* ------------------------------ deleteTask ----------------------------- *)
\* variant of filterOut that also drops whatever comes after the element
RECURSIVE filterOut_from(_, _)
filterOut_from(seq, id) ==
  IF seq = <<>> THEN <<>>
  ELSE IF Head(seq).id = id THEN <<>>
  ELSE <<Head(seq)>> \o filterOut_from(Tail(seq), id)

\* tasks.filter(t => t.id !== id)
RECURSIVE filterOut(_, _)
filterOut(seq, id) ==
  IF seq = <<>> THEN <<>>
  ELSE IF Head(seq).id = id THEN filterOut(Tail(seq), id)
  ELSE <<Head(seq)>> \o filterOut(Tail(seq), id)

deleteTask(id) ==
  /\ Clock
  /\ Atomic
  /\ LET filteredTasks == filterOut(tasks, id) IN
     IF Len(filteredTasks) = Len(tasks)
     THEN /\ last' = Outcome("deleteTask", id, "absent")
          /\ UNCHANGED <<tasks, nextId, startedIds>>
     ELSE /\ tasks' = filteredTasks
          /\ last' = Outcome("deleteTask", id, "ok")
          /\ UNCHANGED <<nextId, startedIds>>

(* ---------------------------- updateTaskStep --------------------------- *)
\* variant of stepUpdated that completes the task once every step is completed
stepUpdated_autoComplete(task, stepIndex, updates) ==
  LET t == [task EXCEPT !.steps[stepIndex] = Spread(@, updates), !.updatedAt = now] IN
  IF \A k \in 1..Len(t.steps) : t.steps[k].completed
  THEN [t EXCEPT !.status = COMPLETED, !.actualCompletionDate = now]
  ELSE t

\* task.steps[stepIndex] = {...step, ...updates}; task.updatedAt = now;
\* when every step is completed only a notice is logged
stepUpdated(task, stepIndex, updates) ==
  [task EXCEPT !.steps[stepIndex] = Spread(@, updates), !.updatedAt = now]

\* variant of updateTaskStep that saves the task, updatedAt bumped, when the
\* step is not found
updateTaskStep_touch(taskId, stepId, updates) ==
  /\ Clock
  /\ Atomic
  /\ LET taskIndex == findIndex(tasks, taskId) IN
     IF taskIndex = 0
     THEN /\ last' = Outcome("updateTaskStep", taskId, "absent")
          /\ UNCHANGED <<tasks, nextId, startedIds>>
     ELSE LET stepIndex == findIndex(tasks[taskIndex].steps, stepId) IN
     IF stepIndex = 0
     THEN /\ tasks' = [tasks EXCEPT ![taskIndex].updatedAt = now]
          /\ last' = Outcome("updateTaskStep", taskId, "absent")
          /\ UNCHANGED <<nextId, startedIds>>
     ELSE /\ tasks' = [tasks EXCEPT ![taskIndex] =
                         stepUpdated(@, stepIndex, updates)]
          /\ last' = Outcome("updateTaskStep", taskId, "ok")
          /\ UNCHANGED <<nextId, startedIds>>

updateTaskStep(taskId, stepId, updates) ==
  /\ Clock
  /\ Atomic
  /\ LET taskIndex == findIndex(tasks, taskId) IN
     IF taskIndex = 0
     THEN /\ last' = Outcome("updateTaskStep", taskId, "absent")
          /\ UNCHANGED <<tasks, nextId, startedIds>>
     ELSE LET stepIndex == findIndex(tasks[taskIndex].steps, stepId) IN
     IF stepIndex = 0
     THEN /\ last' = Outcome("updateTaskStep", taskId, "absent")
          /\ UNCHANGED <<tasks, nextId, startedIds>>
     ELSE /\ tasks' = [tasks EXCEPT ![taskIndex] =
                         stepUpdated(@, stepIndex, updates)]
          /\ last' = Outcome("updateTaskStep", taskId, "ok")
          /\ UNCHANGED <<nextId, startedIds>>

(* ------------------------------ addTaskStep ---------------------------- *)
\* (a.order ?? 0)
orderKey(step) == IF step.order = undefined THEN 0 ELSE step.order

\* variant of insertByOrder that puts x in front of the others
insertByOrder_front(sorted, x) == <<x>> \o sorted

\* one pass of the stable sort: x goes after every element whose key is <= its own
RECURSIVE insertByOrder(_, _)
insertByOrder(sorted, x) ==
  IF sorted = <<>> THEN <<x>>
  ELSE IF orderKey(Head(sorted)) <= orderKey(x)
  THEN <<Head(sorted)>> \o insertByOrder(Tail(sorted), x)
  ELSE <<x>> \o sorted

\* task.steps.sort((a, b) => (a.order ?? 0) - (b.order ?? 0)), a stable sort
RECURSIVE sortSteps(_)
sortSteps(steps) ==
  IF steps = <<>> THEN <<>>
  ELSE insertByOrder(sortSteps(SubSeq(steps, 1, Len(steps) - 1)), steps[Len(steps)])

\* variant of newOrder that reuses the order of the last position
newOrder_length(order, steps) ==
  IF order = undefined \/ order = 0 THEN Len(steps) ELSE order

\* order || task.steps.length + 1
newOrder(order, steps) ==
  IF order = undefined \/ order = 0 THEN Len(steps) + 1 ELSE order

addTaskStep(taskId, description, order, estimatedTime) ==
  /\ Clock
  /\ Atomic
  /\ LET taskIndex == findIndex(tasks, taskId) IN
     IF taskIndex = 0
     THEN /\ last' = Outcome("addTaskStep", taskId, "absent")
          /\ UNCHANGED <<tasks, nextId, startedIds>>
     ELSE LET newStep == [id |-> nextId,
                          description |-> description,
                          completed |-> FALSE,
                          order |-> newOrder(order, tasks[taskIndex].steps),
                          estimatedTime |-> estimatedTime] IN
          /\ nextId <= MaxIds
          /\ tasks' = [tasks EXCEPT ![taskIndex] =
                         [@ EXCEPT !.steps = sortSteps(Append(@, newStep)),
                                   !.updatedAt = now]]
          /\ nextId' = nextId + 1
          /\ last' = Outcome("addTaskStep", taskId, "ok")
          /\ UNCHANGED startedIds

(* ----------------------------- deleteTaskStep -------------------------- *)
\* variant of renumber that numbers the remaining steps from 0
renumber_zeroBased(steps) ==
  [k \in 1..Len(steps) |-> [steps[k] EXCEPT !.order = k - 1]]

\* task.steps.map((step, index) => ({...step, order: index + 1}))
renumber(steps) ==
  [k \in 1..Len(steps) |-> [steps[k] EXCEPT !.order = k]]

deleteTaskStep(taskId, stepId) ==
  /\ Clock
  /\ Atomic
  /\ LET taskIndex == findIndex(tasks, taskId) IN
     IF taskIndex = 0
     THEN /\ last' = Outcome("deleteTaskStep", taskId, "absent")
          /\ UNCHANGED <<tasks, nextId, startedIds>>
     ELSE LET remaining == filterOut(tasks[taskIndex].steps, stepId) IN
     IF Len(remaining) = Len(tasks[taskIndex].steps)
     THEN /\ last' = Outcome("deleteTaskStep", taskId, "absent")
          /\ UNCHANGED <<tasks, nextId, startedIds>>
     ELSE /\ tasks' = [tasks EXCEPT ![taskIndex] =
                         [@ EXCEPT !.steps = renumber(remaining),
                                   !.updatedAt = now]]
          /\ last' = Outcome("deleteTaskStep", taskId, "ok")
          /\ UNCHANGED <<nextId, startedIds>>

(* ---------------------------- setAllStepsStatus ------------------------ *)
\* task.steps.map(step => ({...step, completed}))
markAll(steps, completed) ==
  [k \in 1..Len(steps) |-> [steps[k] EXCEPT !.completed = completed]]

\* variant of allStepsSet that reopens the task but keeps its completion date
allStepsSet_keepDate(task, completed) ==
  LET reopen == ~completed /\ task.status = COMPLETED IN
  [task EXCEPT !.steps = markAll(@, completed),
               !.updatedAt = now,
               !.status = IF reopen THEN IN_PROGRESS ELSE @]

\* the steps are rewritten and updatedAt bumped; completed = true only logs a
\* notice, completed = false on a COMPLETED task reopens it
allStepsSet(task, completed) ==
  LET reopen == ~completed /\ task.status = COMPLETED IN
  [task EXCEPT !.steps = markAll(@, completed),
               !.updatedAt = now,
               !.status = IF reopen THEN IN_PROGRESS ELSE @,
               !.actualCompletionDate = IF reopen THEN undefined ELSE @]

\* variant of setAllStepsStatus that rewrites the steps of every stored task
setAllStepsStatus_everyTask(taskId, completed) ==
  /\ Clock
  /\ Atomic
  /\ LET taskIndex == findIndex(tasks, taskId) IN
     IF taskIndex = 0
     THEN /\ last' = Outcome("setAllStepsStatus", taskId, "absent")
          /\ UNCHANGED <<tasks, nextId, startedIds>>
     ELSE /\ tasks' = [k \in 1..Len(tasks) |-> allStepsSet(tasks[k], completed)]
          /\ last' = Outcome("setAllStepsStatus", taskId, "ok")
          /\ UNCHANGED <<nextId, startedIds>>

setAllStepsStatus(taskId, completed) ==
  /\ Clock
  /\ Atomic
  /\ LET taskIndex == findIndex(tasks, taskId) IN
     IF taskIndex = 0
     THEN /\ last' = Outcome("setAllStepsStatus", taskId, "absent")
          /\ UNCHANGED <<tasks, nextId, startedIds>>
     ELSE /\ tasks' = [tasks EXCEPT ![taskIndex] = allStepsSet(@, completed)]
          /\ last' = Outcome("setAllStepsStatus", taskId, "ok")
          /\ UNCHANGED <<nextId, startedIds>>

(* ------------------------------ searchTasks --------------------------- *)
\* the characters of the strings that tasks and filters carry
Chars(str) ==
  CASE str = "" -> <<>>
    [] str = "x" -> <<"x">>
    [] str = "t1" -> <<"t", "1">>
    [] str = "d1" -> <<"d", "1">>
    [] str = "fix" -> <<"f", "i", "x">>
    [] str = "Fix" -> <<"F", "i", "x">>
    [] str = "FIX" -> <<"F", "I", "X">>
    [] str = "text" -> <<"t", "e", "x", "t">>
    [] str = "Text" -> <<"T", "e", "x", "t">>

\* String.prototype.toLowerCase, character by character
lowerChar(c) ==
  CASE c = "F" -> "f" [] c = "I" -> "i" [] c = "X" -> "x" [] c = "T" -> "t"
    [] OTHER -> c
toLowerCase(str) == [k \in 1..Len(Chars(str)) |-> lowerChar(Chars(str)[k])]

\* String.prototype.includes on character sequences
includes(chars, sub) ==
  \E i \in 0..Len(chars) :
    i + Len(sub) <= Len(chars) /\ SubSeq(chars, i + 1, i + Len(sub)) = sub

\* filter.f && ...: the member is present and not falsy (0 for a number, the
\* empty string for a text; a date is a non-empty ISO string)
givenNumber(filter, f) == f \in DOMAIN filter /\ filter[f] # 0
givenText(filter, f) == f \in DOMAIN filter /\ filter[f] # ""
givenDate(filter, f) == f \in DOMAIN filter

\* variant of hasAllTags that is content with one of the listed tags
hasAllTags_some(task, filter) ==
  \E k \in 1..Len(filter.tags) :
    \E j \in 1..Len(task.tags) : task.tags[j] = filter.tags[k]

\* filter.tags.every(tag => task.tags.includes(tag))
hasAllTags(task, filter) ==
  \A k \in 1..Len(filter.tags) :
    \E j \in 1..Len(task.tags) : task.tags[j] = filter.tags[k]

\* the callback of tasks.filter in searchTasks: the plannedStartDate checks
\* sit inside the block that the dueDateTo check opens
matches(task, filter) ==
  /\ ~(givenText(filter, "status") /\ task.status # filter.status)
  /\ ~(/\ "tags" \in DOMAIN filter /\ Len(filter.tags) > 0
       /\ ~hasAllTags(task, filter))
  /\ ~(givenNumber(filter, "priority") /\ task.priority # filter.priority)
  /\ ~(/\ givenDate(filter, "dueDateFrom") /\ task.dueDate # undefined
       /\ task.dueDate < filter.dueDateFrom)
  /\ ~(/\ givenDate(filter, "dueDateTo") /\ task.dueDate # undefined
       /\ \/ /\ givenDate(filter, "plannedStartDateFrom") /\ task.plannedStartDate # undefined
             /\ task.plannedStartDate < filter.plannedStartDateFrom
          \/ /\ givenDate(filter, "plannedStartDateTo") /\ task.plannedStartDate # undefined
             /\ task.plannedStartDate > filter.plannedStartDateTo
          \/ task.dueDate > filter.dueDateTo)
  /\ ~(givenDate(filter, "createdFrom") /\ task.createdAt < filter.createdFrom)
  /\ ~(givenDate(filter, "createdTo") /\ task.createdAt > filter.createdTo)
  /\ ~(/\ givenText(filter, "searchText")
       /\ ~includes(toLowerCase(task.title), toLowerCase(filter.searchText))
       /\ ~includes(toLowerCase(task.description), toLowerCase(filter.searchText))
       /\ ~\E k \in 1..Len(task.steps) :
             includes(toLowerCase(task.steps[k].description),
                      toLowerCase(filter.searchText)))

\* a read: the store is loaded and filtered, nothing is written
searchTasks(filter) ==
  /\ last' = [op |-> "searchTasks", id |-> 0, res |-> "ok", filter |-> filter,
              found |-> SelectSeq(tasks, LAMBDA task : matches(task, filter))]
  /\ Atomic
  /\ UNCHANGED <<tasks, now, nextId, startedIds>>

(* ------------------------------ TaskTimeUtils ------------------------- *)
\* Date.getTime() counts milliseconds
MsPerMinute == 1000 * 60
MsPerDay == 24 * 60 * MsPerMinute

\* variant of getTaskStartDate that always starts from the creation time
getTaskStartDate_created(task) == task.createdAt

\* task.actualStartDate ? new Date(task.actualStartDate) : new Date(task.createdAt)
getTaskStartDate(task) ==
  IF task.actualStartDate # undefined THEN task.actualStartDate ELSE task.createdAt

\* 0 without actualCompletionDate, else completionDate.getTime() - startDate.getTime()
calculateTaskWorkTimeMs(task) ==
  IF task.actualCompletionDate = undefined THEN 0
  ELSE task.actualCompletionDate - getTaskStartDate(task)

\* calculateTaskWorkTimeMs(task) / (1000 * 60): the dates of the tasks analysed
\* are whole minutes apart, for which the quotient is exact
calculateTaskWorkTimeMinutes(task) ==
  IF task.actualCompletionDate = undefined THEN 0
  ELSE calculateTaskWorkTimeMs(task) \div MsPerMinute

\* typeof step.estimatedTime === 'number' && step.estimatedTime > 0
hasEstimatedTime(step) == step.estimatedTime # undefined /\ step.estimatedTime > 0

\* steps.filter(hasEstimatedTime).reduce((sum, step) => sum + (step.estimatedTime || 0), 0)
RECURSIVE sumEstimatedTime(_)
sumEstimatedTime(steps) ==
  IF steps = <<>> THEN 0
  ELSE (IF hasEstimatedTime(Head(steps)) THEN Head(steps).estimatedTime ELSE 0)
       + sumEstimatedTime(Tail(steps))

calculateTotalEstimatedTime(task) == sumEstimatedTime(task.steps)

\* null (absent) without actualCompletionDate or without estimate, else the
\* work time minus the estimate; absent is a record without value
absent == [defined |-> FALSE]
number(n) == [defined |-> TRUE, value |-> n]

calculateTimeDifference(task) ==
  IF task.actualCompletionDate = undefined THEN absent
  ELSE IF calculateTotalEstimatedTime(task) = 0 THEN absent
  ELSE number(calculateTaskWorkTimeMinutes(task) - calculateTotalEstimatedTime(task))

\* the members of getTaskTimeInfo's result that are numbers
getTaskTimeInfo(task) ==
  [startDate |-> getTaskStartDate(task),
   completionDate |-> task.actualCompletionDate,
   estimatedTotalTime |-> calculateTotalEstimatedTime(task),
   actualWorkTime |-> calculateTaskWorkTimeMinutes(task),
   timeDifference |-> calculateTimeDifference(task)]

\* a caller asks for the time figures of the task at a position of the store
taskTimeInfo(i) ==
  /\ i \in 1..Len(tasks)
  /\ last' = [op |-> "getTaskTimeInfo", id |-> tasks[i].id, res |-> "ok",
              info |-> getTaskTimeInfo(tasks[i])]
  /\ Atomic
  /\ UNCHANGED <<tasks, now, nextId, startedIds>>

(* --------------------------- analyzeTaskStatus ------------------------- *)
\* x || 0 on a number that may be null
orZero(x) == IF x.defined THEN x.value ELSE 0

\* variant of isOverdue that leaves the status out
isOverdue_anyStatus(task) ==
  task.dueDate # undefined /\ task.dueDate < now

\* task.dueDate && status is neither COMPLETED nor CANCELLED && dueDate < new Date()
isOverdue(task) ==
  /\ task.dueDate # undefined
  /\ task.status # COMPLETED /\ task.status # CANCELLED
  /\ task.dueDate < now

\* the counters both aggregators fill in their forEach over the tasks
statusCounts(ts) ==
  [totalTasks |-> Len(ts),
   completedTasks |-> Cardinality({ i \in 1..Len(ts) : ts[i].status = COMPLETED }),
   pendingTasks |-> Cardinality({ i \in 1..Len(ts) : ts[i].status = PENDING }),
   inProgressTasks |-> Cardinality({ i \in 1..Len(ts) : ts[i].status = IN_PROGRESS }),
   cancelledTasks |-> Cardinality({ i \in 1..Len(ts) : ts[i].status = CANCELLED }),
   overdueTasksCount |-> Cardinality({ i \in 1..Len(ts) : isOverdue(ts[i]) })]

\* one entry of taskTimeDifferences
timeDifferenceEntry(task) ==
  [taskId |-> task.id,
   estimatedTotalTime |-> getTaskTimeInfo(task).estimatedTotalTime,
   actualWorkTime |-> getTaskTimeInfo(task).actualWorkTime,
   timeDifference |-> orZero(getTaskTimeInfo(task).timeDifference)]

RECURSIVE sumTimeDifference(_)
sumTimeDifference(entries) ==
  IF entries = <<>> THEN 0
  ELSE Head(entries).timeDifference + sumTimeDifference(Tail(entries))

\* averageTimeDifference = total / count and taskTimeDifferences, both set only
\* when an entry was pushed; the quotient is kept as its two terms
timeDifferences(entries) ==
  IF entries = <<>>
  THEN [averageTimeDifference |-> absent, taskTimeDifferences |-> <<>>]
  ELSE [averageTimeDifference |->
          [defined |-> TRUE, total |-> sumTimeDifference(entries), count |-> Len(entries)],
        taskTimeDifferences |-> entries]

\* TaskManagerTool.analyzeTaskStatus: the COMPLETED tasks with an estimated step
hasEstimate(task) == \E k \in 1..Len(task.steps) : hasEstimatedTime(task.steps[k])

managerEntries(ts) ==
  LET counted == SelectSeq(ts, LAMBDA t : t.status = COMPLETED /\ hasEstimate(t)) IN
  [k \in 1..Len(counted) |-> timeDifferenceEntry(counted[k])]

analysisOf(ts, entries) ==
  [counts |-> statusCounts(ts), times |-> timeDifferences(entries)]

\* a read: the store is loaded and analysed (no filter given)
analyzeTaskStatus ==
  /\ last' = [op |-> "analyzeTaskStatus", id |-> 0, res |-> "ok", input |-> tasks,
              analysis |-> analysisOf(tasks, managerEntries(tasks))]
  /\ Atomic
  /\ UNCHANGED <<tasks, now, nextId, startedIds>>

(* --------------------------- TaskReportGenerator ----------------------- *)
\* new Date("YYYY-MM-DD"): midnight UTC of the day, days counted from day 0
dayStartUtc(day) == day * MsPerDay

\* date.setHours(0, 0, 0, 0) in the host's time zone (offset = local - UTC)
startOfLocalDay(date, offset) ==
  ((date + offset) \div MsPerDay) * MsPerDay - offset

\* date.setHours(23, 59, 59, 999) in the host's time zone
endOfLocalDay(date, offset) == startOfLocalDay(date, offset) + MsPerDay - 1

\* filterTasksByDateRange: createdAt against the two bounds that are given
inDateRange(task, startDate, endDate, offset) ==
  /\ ~(startDate # undefined
       /\ task.createdAt < startOfLocalDay(dayStartUtc(startDate), offset))
  /\ ~(endDate # undefined
       /\ task.createdAt > endOfLocalDay(dayStartUtc(endDate), offset))

filterTasksByDateRange(ts, startDate, endDate, offset) ==
  SelectSeq(ts, LAMBDA t : inDateRange(t, startDate, endDate, offset))

\* analyzeFilteredTasks: the COMPLETED tasks with actualCompletionDate, an
\* estimated step and a positive work time
reportEntries(ts) ==
  LET counted == SelectSeq(ts, LAMBDA t :
                   /\ t.status = COMPLETED
                   /\ t.actualCompletionDate # undefined
                   /\ hasEstimate(t)
                   /\ getTaskTimeInfo(t).actualWorkTime > 0) IN
  [k \in 1..Len(counted) |-> timeDifferenceEntry(counted[k])]

\* variant of isAccurate with a strict limit
isAccurate_strict(entry) ==
  LET abs == IF entry.timeDifference < 0 THEN -entry.timeDifference
             ELSE entry.timeDifference IN
  abs * 5 < entry.estimatedTotalTime

\* Math.abs(t.timeDifference / t.estimatedTotalTime) <= 0.2: the quotient of two
\* integers is on the right side of 0.2 exactly when 5 |difference| <= estimate
isAccurate(entry) ==
  LET abs == IF entry.timeDifference < 0 THEN -entry.timeDifference
             ELSE entry.timeDifference IN
  abs * 5 <= entry.estimatedTotalTime

\* t.timeDifference > 0 && t.timeDifference / t.estimatedTotalTime > 0.2
isUnderestimated(entry) ==
  entry.timeDifference > 0 /\ entry.timeDifference * 5 > entry.estimatedTotalTime

\* t.timeDifference < 0 && Math.abs(t.timeDifference) / t.estimatedTotalTime > 0.2
isOverestimated(entry) ==
  entry.timeDifference < 0 /\ (-entry.timeDifference) * 5 > entry.estimatedTotalTime

\* the three counts of the accuracy summary in buildReportContent
accuracyCounts(entries) ==
  [accurateTasks |-> Cardinality({ i \in 1..Len(entries) : isAccurate(entries[i]) }),
   underestimatedTasks |-> Cardinality({ i \in 1..Len(entries) : isUnderestimated(entries[i]) }),
   overestimatedTasks |-> Cardinality({ i \in 1..Len(entries) : isOverestimated(entries[i]) })]

\* generateReportWithDateRange: load, filter when a bound is given, analyse,
\* build the report; the task store is not written
\* formatTaskDetails: the due date of the task is followed by the overdue mark
marksOverdue(task) ==
  task.dueDate # undefined /\ task.dueDate < now /\ task.status # COMPLETED

generateReportWithDateRange(startDate, endDate, offset) ==
  LET reported == IF startDate # undefined \/ endDate # undefined
                  THEN filterTasksByDateRange(tasks, startDate, endDate, offset)
                  ELSE tasks IN
  /\ last' = [op |-> "generateReportWithDateRange", id |-> 0, res |-> "ok",
              startDate |-> startDate, endDate |-> endDate, offset |-> offset,
              input |-> reported,
              analysis |-> analysisOf(reported, reportEntries(reported)),
              accuracy |-> accuracyCounts(reportEntries(reported)),
              markedOverdue |-> { k \in 1..Len(reported) : marksOverdue(reported[k]) }]
  /\ Atomic
  /\ UNCHANGED <<tasks, now, nextId, startedIds>>

(* ------------------------ calls and their storage --------------------- *)
\* the callers whose invocations can be under way at once
Callers == {1, 2}
idle == [pc |-> "idle"]
NoCalls == [c \in Callers |-> idle]

\* how readFileSync with JSON.parse, and writeFileSync, can end: writeFileSync
\* opens the file for writing, which empties it, and then writes; it can be
\* refused at the opening or break off after it
ReadResults == {"read", "failed"}
WriteResults == {"written", "refused", "truncated"}

\* readTasks throws when a file-system call fails or the document does not parse
readTasksThrows(io) == io = "failed" \/ damaged

\* what an operation of the manager does with the collection it has loaded: it
\* returns or throws before any write, or it hands a collection to writeTasks
noTask == <<>>
returns(res, task) == [res |-> res, save |-> FALSE, tasks |-> <<>>, returned |-> task]
saves(ts, task) == [res |-> "ok", save |-> TRUE, tasks |-> ts, returned |-> task]

\* createTask(title, description, steps, tags, dueDate, priority) as the tool
\* calls it: its priority is received as plannedStartDate
createTaskOn(ts, call) ==
  LET task == newTask(call.title, call.description, call.steps, <<>>, call.priority, 3) IN
  saves(Append(ts, task), <<task>>)

getTaskByIdOn(ts, call) ==
  LET taskIndex == findIndex(ts, call.id) IN
  IF taskIndex = 0 THEN returns("absent", noTask) ELSE returns("ok", <<ts[taskIndex]>>)

\* variant of updateTaskOn that merges the updates into the first task of the collection
updateTaskOn_first(ts, call) ==
  LET taskIndex == findIndex(ts, call.id) IN
  IF taskIndex = 0 THEN returns("absent", noTask)
  ELSE IF rejectsCompleted(call.updates) THEN returns("ValidationError", noTask)
  ELSE saves([ts EXCEPT ![1] = merged(@, call.updates)], <<merged(ts[1], call.updates)>>)

updateTaskOn(ts, call) ==
  LET taskIndex == findIndex(ts, call.id) IN
  IF taskIndex = 0 THEN returns("absent", noTask)
  ELSE IF rejectsCompleted(call.updates) THEN returns("ValidationError", noTask)
  ELSE saves([ts EXCEPT ![taskIndex] = merged(@, call.updates)],
             <<merged(ts[taskIndex], call.updates)>>)

completeTaskOn(ts, call) ==
  LET taskIndex == findIndex(ts, call.id) IN
  IF taskIndex = 0 THEN returns("absent", noTask)
  ELSE saves([ts EXCEPT ![taskIndex] = markCompleted(@, undefined)],
             <<markCompleted(ts[taskIndex], undefined)>>)

deleteTaskOn(ts, call) ==
  LET filteredTasks == filterOut(ts, call.id) IN
  IF Len(filteredTasks) = Len(ts) THEN returns("absent", noTask)
  ELSE saves(filteredTasks, noTask)

updateTaskStepOn(ts, call) ==
  LET taskIndex == findIndex(ts, call.id) IN
  IF taskIndex = 0 THEN returns("absent", noTask)
  ELSE LET stepIndex == findIndex(ts[taskIndex].steps, call.stepId) IN
  IF stepIndex = 0 THEN returns("absent", noTask)
  ELSE saves([ts EXCEPT ![taskIndex] = stepUpdated(@, stepIndex, call.updates)],
             <<stepUpdated(ts[taskIndex], stepIndex, call.updates)>>)

addTaskStepOn(ts, call) ==
  LET taskIndex == findIndex(ts, call.id) IN
  IF taskIndex = 0 THEN returns("absent", noTask)
  ELSE LET newStep == [id |-> nextId,
                       description |-> call.description,
                       completed |-> FALSE,
                       order |-> newOrder(undefined, ts[taskIndex].steps),
                       estimatedTime |-> undefined]
           task == [ts[taskIndex] EXCEPT !.steps = sortSteps(Append(@, newStep)),
                                         !.updatedAt = now] IN
       saves([ts EXCEPT ![taskIndex] = task], <<task>>)

deleteTaskStepOn(ts, call) ==
  LET taskIndex == findIndex(ts, call.id) IN
  IF taskIndex = 0 THEN returns("absent", noTask)
  ELSE LET remaining == filterOut(ts[taskIndex].steps, call.stepId)
           task == [ts[taskIndex] EXCEPT !.steps = renumber(remaining),
                                         !.updatedAt = now] IN
  IF Len(remaining) = Len(ts[taskIndex].steps) THEN returns("absent", noTask)
  ELSE saves([ts EXCEPT ![taskIndex] = task], <<task>>)

setAllStepsStatusOn(ts, call) ==
  LET taskIndex == findIndex(ts, call.id) IN
  IF taskIndex = 0 THEN returns("absent", noTask)
  ELSE saves([ts EXCEPT ![taskIndex] = allStepsSet(@, call.completed)],
             <<allStepsSet(ts[taskIndex], call.completed)>>)

\* the operation of the manager under way, on the collection readTasks returned
performed(op, call, ts) ==
  CASE op = "createTask" -> createTaskOn(ts, call)
    [] op = "getTaskById" -> getTaskByIdOn(ts, call)
    [] op = "updateTask" -> updateTaskOn(ts, call)
    [] op = "completeTask" -> completeTaskOn(ts, call)
    [] op = "deleteTask" -> deleteTaskOn(ts, call)
    [] op = "updateTaskStep" -> updateTaskStepOn(ts, call)
    [] op = "addTaskStep" -> addTaskStepOn(ts, call)
    [] op = "deleteTaskStep" -> deleteTaskStepOn(ts, call)
    [] op = "setAllStepsStatus" -> setAllStepsStatusOn(ts, call)
    [] OTHER -> returns("ok", noTask)

\* createTask checks its arguments before it loads anything
throwsBeforeLoad(op, call) ==
  op = "createTask" /\ invalidArguments(call.title, call.description, 3)

\* ids the operation draws from the generator: uuidv4() per step and per task
idsTaken(op, call) ==
  CASE op = "createTask" -> Len(call.steps) + 1
    [] op = "addTaskStep" -> 1
    [] OTHER -> 0

(* ------------------------------ tool handlers -------------------------- *)
Errors == {"ValidationError", "StateTransitionError", "StorageError"}
Completer == "TaskCompleter.completeTask"

\* the operation of the manager a handler calls first
managerOp(tool) ==
  CASE tool = "taskCreate" -> "createTask"
    [] tool = "taskGetAll" -> "getAllTasks"
    [] tool = "taskGetById" -> "getTaskById"
    [] tool = "taskUpdate" -> "updateTask"
    [] tool = "taskDelete" -> "deleteTask"
    [] tool = "taskStepUpdate" -> "updateTaskStep"
    [] tool = "taskStepAdd" -> "addTaskStep"
    [] tool = "taskStepDelete" -> "deleteTaskStep"
    [] tool = "taskSearch" -> "searchTasks"
    [] tool = "taskAnalyze" -> "analyzeTaskStatus"
    [] tool = "taskSetAllSteps" -> "setAllStepsStatus"
    [] tool = "taskGenerateReport" -> "generateReportWithDateRange"
    [] tool = Completer -> "getTaskById"

\* variant of response that lets the error through
response_rethrow(tool, res) ==
  IF res \in Errors THEN "thrown"
  ELSE IF res = "absent" THEN "notFound"
  ELSE "success"

\* try { ... if (!result) return not-found text; return success text }
\* catch (error) { return failure text }
response(tool, res) ==
  IF res \in Errors THEN "failure"
  ELSE IF res = "absent" THEN "notFound"
  ELSE "success"

\* TaskCompleter.completeTask once the operation under way has ended: the
\* operation it calls next, or the value it returns ({success, message})
completerNext(rec, done) ==
  IF done.res \in Errors THEN [op |-> "", response |-> "failure"]
  ELSE IF rec.op = "getTaskById"
  THEN IF Len(done.returned) = 0 THEN [op |-> "", response |-> "failure"]
       ELSE [op |-> "completeTask", response |-> ""]
  ELSE IF rec.op = "completeTask"
  THEN IF rec.found[1].status = COMPLETED THEN [op |-> "", response |-> "success"]
       ELSE IF Len(done.returned) = 0 THEN [op |-> "", response |-> "failure"]
       ELSE IF \E k \in 1..Len(done.returned[1].steps) : ~done.returned[1].steps[k].completed
       THEN [op |-> "setAllStepsStatus", response |-> ""]
       ELSE [op |-> "", response |-> "success"]
  ELSE [op |-> "", response |-> "success"]

\* the arguments of the operation under way: TaskCompleter calls
\* setAllStepsStatus(taskId, true)
arguments(rec) ==
  IF rec.call.tool = Completer
  THEN [tool |-> Completer, id |-> rec.call.id, completed |-> TRUE]
  ELSE rec.call

\* a call begins: the handler calls the manager, which awaits readTasks
invoke(c, call) ==
  /\ inFlight[c].pc \in {"idle", "returned"}
  /\ inFlight' = [inFlight EXCEPT ![c] =
                    [pc |-> "readTasks", call |-> call, op |-> managerOp(call.tool),
                     found |-> noTask, pending |-> <<>>, result |-> noTask,
                     overlapped |-> FALSE]]
  /\ UNCHANGED <<tasks, now, nextId, last, startedIds, damaged>>

\* the operation under way has returned or thrown: the handler returns its
\* response, or TaskCompleter goes on to its next operation
settled(c, rec, done) ==
  LET next == IF rec.call.tool = Completer THEN completerNext(rec, done)
              ELSE [op |-> "", response |-> response(rec.call.tool, done.res)] IN
  IF next.op = ""
  THEN /\ inFlight' = [inFlight EXCEPT ![c] =
                         [pc |-> "returned", call |-> rec.call, res |-> done.res,
                          response |-> next.response]]
       /\ last' = Outcome(rec.call.tool, rec.call.id, done.res)
  ELSE /\ inFlight' = [inFlight EXCEPT ![c] =
                         [rec EXCEPT !.pc = "readTasks", !.op = next.op,
                                     !.found = IF rec.op = "getTaskById"
                                               THEN done.returned ELSE @,
                                     !.pending = <<>>, !.result = noTask,
                                     !.overlapped = FALSE]]
       /\ UNCHANGED last

\* the operation has loaded the collection and has its write still to make
loaded(d) == inFlight[d].pc = "writeTasks"

\* readTasks returns or throws, and the operation runs on to its writeTasks:
\* it returns or throws before that, or it has mutated its copy of the
\* collection at the clock's reading. generateReportWithDateRange writes the
\* report file on the way.
readTasks(c, io, out) ==
  /\ inFlight[c].pc = "readTasks"
  /\ LET rec == inFlight[c]
         done == performed(rec.op, arguments(rec), tasks) IN
     IF throwsBeforeLoad(rec.op, rec.call)
     THEN /\ settled(c, rec, returns("ValidationError", noTask))
          /\ UNCHANGED <<now, nextId>>
     ELSE IF readTasksThrows(io)
     THEN /\ settled(c, rec, returns("StorageError", noTask))
          /\ UNCHANGED <<now, nextId>>
     ELSE IF rec.op = "generateReportWithDateRange" /\ out # "written"
     THEN /\ settled(c, rec, returns("StorageError", noTask))
          /\ UNCHANGED <<now, nextId>>
     ELSE IF ~done.save
     THEN /\ settled(c, rec, done)
          /\ UNCHANGED <<now, nextId>>
     ELSE /\ Clock
          /\ Len(done.tasks) <= MaxTasks
          /\ nextId + idsTaken(rec.op, rec.call) - 1 <= MaxIds
          /\ nextId' = nextId + idsTaken(rec.op, rec.call)
          /\ inFlight' =
               [d \in Callers |->
                  IF d = c
                  THEN [rec EXCEPT !.pc = "writeTasks", !.pending = done.tasks,
                                   !.result = done.returned,
                                   !.overlapped = \E e \in Callers \ {c} : loaded(e)]
                  ELSE IF loaded(d) THEN [inFlight[d] EXCEPT !.overlapped = TRUE]
                  ELSE inFlight[d]]
          /\ UNCHANGED last
  /\ UNCHANGED <<tasks, startedIds, damaged>>

\* writeTasks overwrites the whole document, or throws: the operation returns
\* its task, or the error goes up to the handler
writeTasks(c, io) ==
  /\ inFlight[c].pc = "writeTasks"
  /\ LET rec == inFlight[c] IN
     CASE io = "written" ->
            /\ tasks' = rec.pending
            /\ damaged' = FALSE
            /\ settled(c, rec, saves(rec.pending, rec.result))
       [] io = "refused" ->
            /\ UNCHANGED <<tasks, damaged>>
            /\ settled(c, rec, returns("StorageError", noTask))
       [] io = "truncated" ->
            /\ tasks' = <<>>
            /\ damaged' = TRUE
            /\ settled(c, rec, returns("StorageError", noTask))
  /\ UNCHANGED <<now, nextId, startedIds>>

(* ----------------------------- specification --------------------------- *)
Ids == 1..MaxIds

\* the calls made on the manager
Titles == {"", "t1"}
NewStepLists ==
  { <<>>,
    <<[description |-> "d1"]>>,
    <<[description |-> "d1", estimatedTime |-> 30],
      [description |-> "d2", order |-> 1, completed |-> TRUE]>> }
Priorities == {0, 3, 6}
TaskUpdates ==
  { [status |-> s] : s \in TaskStatus }
  \cup { [status |-> COMPLETED, title |-> "t2"],
         [actualCompletionDate |-> 0],
         [actualStartDate |-> 0] }
StepUpdates == { [completed |-> TRUE], [completed |-> FALSE], [order |-> 3] }
CompletionDates == {undefined, 0}

Init ==
  /\ tasks = <<>>
  /\ now = 0
  /\ nextId = 1
  /\ last = Outcome("none", 0, "ok")
  /\ inFlight = NoCalls
  /\ damaged = FALSE
  /\ startedIds = {}

Next ==
  \/ \E title \in Titles, steps \in NewStepLists, priority \in Priorities :
       createTask(title, "text", steps, <<>>, undefined, undefined, priority)
  \/ \E id \in Ids, updates \in TaskUpdates : updateTask(id, updates)
  \/ \E id \in Ids, completionDate \in CompletionDates : completeTask(id, completionDate)
  \/ \E id \in Ids : startTask(id)
  \/ \E id \in Ids : deleteTask(id)
  \/ \E id \in Ids, stepId \in Ids, updates \in StepUpdates :
       updateTaskStep(id, stepId, updates)
  \/ \E id \in Ids, order \in {undefined, 1} : addTaskStep(id, "d3", order, undefined)
  \/ \E id \in Ids, stepId \in Ids : deleteTaskStep(id, stepId)
  \/ \E id \in Ids, completed \in BOOLEAN : setAllStepsStatus(id, completed)

Spec == Init /\ [][Next]_vars

\* the step operations on their own, on tasks whose steps were created with
\* explicit orders in any sequence
OrderedStepLists ==
  NewStepLists \cup
  { <<[description |-> "d1", order |-> 5], [description |-> "d2"]>>,
    <<[description |-> "d1"], [description |-> "d2"], [description |-> "d4"]>> }
StepOrders == {undefined, 1}
StepEstimates == {undefined, 15}

NextSteps ==
  \/ \E steps \in OrderedStepLists :
       createTask("t1", "text", steps, <<>>, undefined, undefined, 3)
  \/ \E id \in Ids, stepId \in Ids, updates \in StepUpdates :
       updateTaskStep(id, stepId, updates)
  \/ \E id \in Ids, order \in StepOrders, estimatedTime \in StepEstimates :
       addTaskStep(id, "d3", order, estimatedTime)
  \/ \E id \in Ids, stepId \in Ids : deleteTaskStep(id, stepId)

SpecSteps == Init /\ [][NextSteps]_vars

\* tasks created with steps that give no order, then steps added without an
\* order and steps deleted
PlainStepLists ==
  { <<>>, <<[description |-> "d1"]>>, <<[description |-> "d1"], [description |-> "d2"]>> }

NextOrders ==
  \/ \E steps \in PlainStepLists :
       createTask("t1", "text", steps, <<>>, undefined, undefined, 3)
  \/ \E id \in Ids, estimatedTime \in StepEstimates :
       addTaskStep(id, "d3", undefined, estimatedTime)
  \/ \E id \in Ids, stepId \in Ids : deleteTaskStep(id, stepId)

SpecOrders == Init /\ [][NextOrders]_vars

\* createTask on its own, over every combination of its arguments
Descriptions == {"", "text"}
AllPriorities == 0..6
DueDates == {undefined, 2}
PlannedStartDates == {undefined, 1}

CreateCall(title, description, steps, dueDate, plannedStartDate, priority) ==
  [title |-> title, description |-> description, steps |-> steps,
   dueDate |-> dueDate, plannedStartDate |-> plannedStartDate, priority |-> priority]

\* the calls: each argument is varied on its own around a valid call
CreateCalls ==
  { CreateCall("t1", "text", <<>>, undefined, undefined, priority) :
      priority \in AllPriorities }
  \cup { CreateCall(title, description, <<>>, undefined, undefined, 3) :
           title \in Titles, description \in Descriptions }
  \cup { CreateCall("", "text", <<>>, undefined, undefined, 0) }
  \cup { CreateCall("t1", "text", steps, undefined, undefined, 3) :
           steps \in NewStepLists }
  \cup { CreateCall("t1", "text", <<>>, dueDate, plannedStartDate, 3) :
           dueDate \in DueDates, plannedStartDate \in PlannedStartDates }

createTaskCalled(call) ==
  createTask(call.title, call.description, call.steps, <<>>, call.dueDate,
             call.plannedStartDate, call.priority)

NextCreate == \E call \in CreateCalls : createTaskCalled(call)

SpecCreate == Init /\ [][NextCreate]_vars

\* every operation of the manager, reads included, on tasks of valid priority
ShortStepLists == { <<>>, <<[description |-> "d1"]>> }
StoreUpdates ==
  { [title |-> "t2"], [priority |-> 6], [status |-> CANCELLED], [updatedAt |-> 0] }

NextStore ==
  \/ \E steps \in ShortStepLists :
       createTask("t1", "text", steps, <<>>, undefined, undefined, 3)
  \/ \E id \in Ids : getTaskById(id)
  \/ \E id \in Ids, updates \in StoreUpdates : updateTask(id, updates)
  \/ \E id \in Ids : completeTask(id, undefined)
  \/ \E id \in Ids : startTask(id)
  \/ \E id \in Ids : deleteTask(id)
  \/ \E id \in Ids, stepId \in Ids : updateTaskStep(id, stepId, [completed |-> TRUE])
  \/ \E id \in Ids : addTaskStep(id, "d3", undefined, undefined)
  \/ \E id \in Ids, stepId \in Ids : deleteTaskStep(id, stepId)
  \/ \E id \in Ids : setAllStepsStatus(id, TRUE)

SpecStore == Init /\ [][NextStore]_vars

\* searchTasks over stores of bounded size and a set of filters; the stored
\* tasks are in states createTask, updateTask, startTask and completeTask leave
storedTask(title, description, stepText, tags, status, priority, createdAt, dueDate, plannedStartDate) ==
  [id |-> 0,
   title |-> title,
   description |-> description,
   steps |-> IF stepText = "" THEN <<>>
             ELSE <<[id |-> 0, description |-> stepText, order |-> 1,
                     completed |-> FALSE, estimatedTime |-> undefined]>>,
   tags |-> tags,
   createdAt |-> createdAt,
   plannedStartDate |-> plannedStartDate,
   updatedAt |-> IF status = PENDING /\ dueDate = undefined
                 THEN createdAt ELSE createdAt + 1,
   dueDate |-> dueDate,
   actualStartDate |-> IF status = IN_PROGRESS THEN createdAt + 1 ELSE undefined,
   actualCompletionDate |-> IF status = COMPLETED THEN createdAt + 1 ELSE undefined,
   status |-> status,
   priority |-> priority]

SearchPool ==
  { storedTask("Fix", "text", "", <<"a", "b">>, PENDING, 1, 0, undefined, 1),
    storedTask("t1", "text", "fix", <<"a">>, IN_PROGRESS, 3, 1, 3, undefined),
    storedTask("t1", "Text", "d1", <<>>, COMPLETED, 5, 2, 1, 3),
    storedTask("t1", "text", "", <<"b">>, PENDING, 3, 3, 2, 1) }

\* ids as the generator hands them out: a step's before its task's
withIds(pool) ==
  [i \in 1..Len(pool) |->
     [pool[i] EXCEPT !.id = 2 * i,
                     !.steps = [k \in 1..Len(@) |-> [@[k] EXCEPT !.id = 2 * i - 1]]]]

SearchStores ==
  { withIds(pool) : pool \in UNION { [1..n -> SearchPool] : n \in 0..MaxTasks } }

SearchFilters ==
  { <<>>,
    [status |-> PENDING],
    [tags |-> <<"a", "b">>],
    [tags |-> <<>>],
    [priority |-> 3],
    [dueDateFrom |-> 2],
    [dueDateTo |-> 2],
    [dueDateFrom |-> 1, dueDateTo |-> 2],
    [plannedStartDateFrom |-> 2],
    [plannedStartDateTo |-> 2],
    [dueDateTo |-> 3, plannedStartDateFrom |-> 2],
    [createdFrom |-> 1],
    [createdTo |-> 1],
    [createdFrom |-> 1, createdTo |-> 2],
    [searchText |-> "FIX"],
    [searchText |-> "x"],
    [searchText |-> ""],
    [status |-> PENDING, priority |-> 1, searchText |-> "fix"] }

InitSearch ==
  /\ tasks \in SearchStores
  /\ now = MaxTime
  /\ nextId = 2 * Len(tasks) + 1
  /\ last = Outcome("none", 0, "ok")
  /\ inFlight = NoCalls
  /\ damaged = FALSE
  /\ startedIds = { tasks[i].id : i \in { j \in 1..Len(tasks) : tasks[j].status = IN_PROGRESS } }

NextSearch == \E filter \in SearchFilters : searchTasks(filter)

SpecSearch == InitSearch /\ [][NextSearch]_vars

\* the time figures, the two aggregators and the report over stores of
\* bounded size; dates are milliseconds counted from midnight UTC of day 0
analysedTask(status, createdAt, startedAfter, completedAfter, dueDate, estimates) ==
  LET started == IF startedAfter = undefined THEN undefined
                 ELSE createdAt + startedAfter * MsPerMinute
      reference == IF started = undefined THEN createdAt ELSE started
      finished == IF completedAfter = undefined THEN undefined
                  ELSE reference + completedAfter * MsPerMinute IN
  [id |-> 0,
   title |-> "t1",
   description |-> "text",
   steps |-> [k \in 1..Len(estimates) |->
                [id |-> 0, description |-> "d1", order |-> k,
                 completed |-> status = COMPLETED, estimatedTime |-> estimates[k]]],
   tags |-> <<>>,
   createdAt |-> createdAt,
   plannedStartDate |-> undefined,
   updatedAt |-> IF finished # undefined /\ finished > reference THEN finished
                 ELSE reference + MsPerMinute,
   dueDate |-> dueDate,
   actualStartDate |-> started,
   actualCompletionDate |-> finished,
   status |-> status,
   priority |-> 3]

ReportNow == 6 * MsPerDay
EndOfDay3 == 4 * MsPerDay - 1
StartOfDay4 == 4 * MsPerDay

ReportPool ==
  { analysedTask(COMPLETED, MsPerDay, 10, 95, undefined, <<30, 60>>),
    analysedTask(COMPLETED, EndOfDay3, undefined, 30, MsPerDay, <<60>>),
    analysedTask(COMPLETED, StartOfDay4, 5, 72, undefined, <<60, undefined>>),
    analysedTask(COMPLETED, 2 * MsPerDay, 5, 120, undefined, <<60>>),
    analysedTask(COMPLETED, 2 * MsPerDay, undefined, 0, undefined, <<30>>),
    analysedTask(COMPLETED, 2 * MsPerDay, undefined, 45, undefined, <<undefined>>),
    analysedTask(PENDING, 3 * MsPerDay, undefined, undefined, 5 * MsPerDay, <<30>>),
    analysedTask(IN_PROGRESS, EndOfDay3 - 12 * 60 * MsPerMinute, 5, undefined, 7 * MsPerDay, <<>>),
    analysedTask(CANCELLED, 3 * MsPerDay, undefined, undefined, 4 * MsPerDay, <<30>>) }

\* ids as the generator hands them out: the steps' before the task's
withStepIds(pool) ==
  [i \in 1..Len(pool) |->
     [pool[i] EXCEPT !.id = 3 * i,
                     !.steps = [k \in 1..Len(@) |-> [@[k] EXCEPT !.id = 3 * i - 3 + k]]]]

ReportStores ==
  { withStepIds(pool) : pool \in UNION { [1..n -> ReportPool] : n \in 0..MaxTasks } }

\* the report's day bounds and the host's time zone offsets (UTC-5, UTC, UTC+8)
StartDays == {undefined, 1}
EndDays == {undefined, 3}
ZoneOffsets == { -5 * 60 * MsPerMinute, 0, 8 * 60 * MsPerMinute }

InitReport ==
  /\ tasks \in ReportStores
  /\ now = ReportNow
  /\ nextId = 3 * Len(tasks) + 1
  /\ last = Outcome("none", 0, "ok")
  /\ inFlight = NoCalls
  /\ damaged = FALSE
  /\ startedIds = { tasks[i].id : i \in { j \in 1..Len(tasks) : tasks[j].actualStartDate # undefined } }

NextReport ==
  \/ \E i \in 1..MaxTasks : taskTimeInfo(i)
  \/ analyzeTaskStatus
  \/ \E startDate \in StartDays, endDate \in EndDays, offset \in ZoneOffsets :
       generateReportWithDateRange(startDate, endDate, offset)

SpecReport == InitReport /\ [][NextReport]_vars
\* the tools called one at a time, each to its response, on a file system
\* that can fail at every read and every write
CalledIds == {1, 2}
BoundaryUpdates == { [title |-> "t2"], [status |-> COMPLETED] }
BoundaryCalls ==
  { [tool |-> "taskCreate", id |-> 0, title |-> title, description |-> "text",
     steps |-> <<[description |-> "d1"]>>, priority |-> 3] : title \in Titles }
  \cup { [tool |-> tool, id |-> 0] :
           tool \in {"taskGetAll", "taskSearch", "taskAnalyze", "taskGenerateReport"} }
  \cup { [tool |-> tool, id |-> id] :
           tool \in {"taskGetById", "taskDelete", Completer}, id \in CalledIds }
  \cup { [tool |-> "taskUpdate", id |-> 2, updates |-> updates] :
           updates \in BoundaryUpdates }
  \cup { [tool |-> "taskStepUpdate", id |-> 2, stepId |-> 1,
           updates |-> [completed |-> TRUE]],
         [tool |-> "taskStepAdd", id |-> 2, description |-> "d3"],
         [tool |-> "taskStepDelete", id |-> 2, stepId |-> 1],
         [tool |-> "taskSetAllSteps", id |-> 2, completed |-> FALSE] }

NextBoundary ==
  \/ \E call \in BoundaryCalls : invoke(1, call)
  \/ \E io \in ReadResults, out \in WriteResults : readTasks(1, io, out)
  \/ \E io \in WriteResults : writeTasks(1, io)

SpecBoundary == Init /\ [][NextBoundary]_vars

\* two callers whose calls can be under way at once, on a store of two tasks
\* and a file system that does not fail
OverlapStore ==
  LET task == storedTask("t1", "text", "", <<>>, PENDING, 3, 0, undefined, undefined) IN
  <<[task EXCEPT !.id = 1], [task EXCEPT !.id = 2]>>
OverlapUpdates == { [title |-> "t2"], [priority |-> 5] }
OverlapCalls ==
  { [tool |-> "taskUpdate", id |-> id, updates |-> updates] :
      id \in CalledIds, updates \in OverlapUpdates }
  \cup { [tool |-> "taskDelete", id |-> 1] }

InitOverlap ==
  /\ tasks = OverlapStore
  /\ now = 1
  /\ nextId = 3
  /\ last = Outcome("none", 0, "ok")
  /\ startedIds = {}
  /\ inFlight = NoCalls
  /\ damaged = FALSE

NextOverlap ==
  \/ \E c \in Callers, call \in OverlapCalls : invoke(c, call)
  \/ \E c \in Callers : readTasks(c, "read", "written")
  \/ \E c \in Callers : writeTasks(c, "written")

SpecOverlap == InitOverlap /\ [][NextOverlap]_vars

(* ------------------------------- properties ---------------------------- *)
Known(id) == findIndex(tasks, id) # 0
KnownAfter(id) == findIndex(tasks', id) # 0
TaskAfter(id) == tasks'[findIndex(tasks', id)]
Called(op, id) == last'.op = op /\ last'.id = id

\* C1: startTask(id) on an existing task sets status = IN_PROGRESS,
\* actualStartDate = now and updatedAt = now when the task is PENDING; in any
\* other status it fails with a state-transition error and the store is unchanged.
C1_StartTask ==
  [][\A id \in Ids :
       (Called("startTask", id) /\ Known(id)) =>
         IF TaskOf(id).status = PENDING
         THEN /\ last'.res = "ok"
              /\ TaskAfter(id).status = IN_PROGRESS
              /\ TaskAfter(id).actualStartDate = now
              /\ TaskAfter(id).updatedAt = now
         ELSE /\ last'.res = "StateTransitionError"
              /\ tasks' = tasks]_vars

\* a started task: the call succeeded at the previous clock reading
C1_Witness ==
  /\ last.op = "startTask" /\ last.res = "ok"
  /\ Known(last.id)
  /\ TaskOf(last.id).status = IN_PROGRESS
  /\ TaskOf(last.id).actualStartDate = now - 1
  /\ TaskOf(last.id).updatedAt = now - 1

\* C2 as stated: updateTask(id, partial) with partial.status = COMPLETED fails
\* with a validation error for every id passed and leaves the store unchanged.
C2_AlwaysValidationError ==
  [][\A id \in Ids : \A updates \in TaskUpdates :
       (rejectsCompleted(updates) /\ updateTask(id, updates)) =>
         (last'.res = "ValidationError" /\ tasks' = tasks)]_vars

\* C2 amended: updateTask(id, partial) with partial.status = COMPLETED never
\* succeeds and leaves the store unchanged: for an existing task it fails with
\* a validation error whatever other fields partial carries, for an unknown id
\* it returns absent.
C2_NeverCompletes ==
  [][last'.op = "updateTask" =>
       \A updates \in TaskUpdates :
         ("status" \in DOMAIN updates /\ updates.status = COMPLETED
            /\ updateTask(last'.id, updates)) =>
           /\ tasks' = tasks
           /\ last'.res = IF Known(last'.id) THEN "ValidationError" ELSE "absent"]_vars

\* an update asking for COMPLETED was refused on an existing task
C2_Witness ==
  /\ last.op = "updateTask" /\ last.res = "ValidationError"
  /\ Known(last.id)
  /\ TaskOf(last.id).status # COMPLETED
\* C3: CANCELLED is terminal: once a task's status is CANCELLED no operation
\* on the task changes its status.
C3_CancelledTerminal ==
  [][\A id \in Ids :
       (Known(id) /\ TaskOf(id).status = CANCELLED /\ KnownAfter(id)) =>
         TaskAfter(id).status = CANCELLED]_vars

\* C4: a COMPLETED task leaves COMPLETED only through setAllStepsStatus(id, false),
\* which moves it to IN_PROGRESS; no other operation changes its status.
C4_CompletedLeavesOnlyByReset ==
  [][\A id \in Ids :
       (Known(id) /\ TaskOf(id).status = COMPLETED /\ KnownAfter(id)
          /\ TaskAfter(id).status # COMPLETED) =>
         (Called("setAllStepsStatus", id) /\ TaskAfter(id).status = IN_PROGRESS)]_vars

\* C5: startTask succeeds at most once on each task.
C5_StartsAtMostOnce ==
  [][\A id \in Ids :
       (Called("startTask", id) /\ last'.res = "ok") => id \notin startedIds]_vars

\* C6: only completeTask sets actualCompletionDate; setAllStepsStatus can only
\* clear it; every other operation leaves it as it was.
C6_CompletionDateOnlyByComplete ==
  [][\A id \in Ids :
       (Known(id) /\ KnownAfter(id)
          /\ TaskAfter(id).actualCompletionDate # TaskOf(id).actualCompletionDate) =>
         \/ Called("completeTask", id)
         \/ Called("setAllStepsStatus", id) /\ TaskAfter(id).actualCompletionDate = undefined]_vars

\* C7: only startTask, on a PENDING task, sets actualStartDate; every other
\* operation leaves it as it was.
C7_StartDateOnlyByStart ==
  [][\A id \in Ids :
       (Known(id) /\ KnownAfter(id)
          /\ TaskAfter(id).actualStartDate # TaskOf(id).actualStartDate) =>
         (Called("startTask", id) /\ TaskOf(id).status = PENDING)]_vars

\* C8: completeTask(id, completionDate?) on an existing PENDING, IN_PROGRESS or
\* already COMPLETED task leaves it COMPLETED with actualCompletionDate =
\* completionDate (now when omitted) and updatedAt = now, and changes no other field.
C8_CompleteTask ==
  [][(last'.op = "completeTask" /\ Known(last'.id)
        /\ TaskOf(last'.id).status # CANCELLED) =>
       LET id == last'.id IN
       \A completionDate \in CompletionDates :
         completeTask(id, completionDate) =>
           /\ last'.res = "ok"
           /\ TaskAfter(id).status = COMPLETED
           /\ TaskAfter(id).actualCompletionDate =
                (IF completionDate = undefined THEN now ELSE completionDate)
           /\ TaskAfter(id).updatedAt = now
           /\ \A f \in DOMAIN TaskOf(id) \ {"status", "actualCompletionDate", "updatedAt"} :
                TaskAfter(id)[f] = TaskOf(id)[f]]_vars

\* a task with an unfinished step was completed at the previous clock reading
C8_Witness ==
  /\ last.op = "completeTask" /\ last.res = "ok"
  /\ Known(last.id)
  /\ TaskOf(last.id).status = COMPLETED
  /\ TaskOf(last.id).actualCompletionDate = now - 1
  /\ \E k \in 1..Len(TaskOf(last.id).steps) : ~TaskOf(last.id).steps[k].completed

\* C9: setAllStepsStatus(id, false) on a COMPLETED task leaves it IN_PROGRESS,
\* without actualCompletionDate and with every step's completed = false.
C9_ResetReopens ==
  [][\A id \in Ids :
       (Called("setAllStepsStatus", id) /\ setAllStepsStatus(id, FALSE)
          /\ Known(id) /\ TaskOf(id).status = COMPLETED) =>
         /\ TaskAfter(id).status = IN_PROGRESS
         /\ TaskAfter(id).actualCompletionDate = undefined
         /\ \A k \in 1..Len(TaskAfter(id).steps) : ~TaskAfter(id).steps[k].completed]_vars

\* a never-started task with steps is IN_PROGRESS right after setAllStepsStatus
C9_Witness ==
  /\ last.op = "setAllStepsStatus" /\ last.res = "ok"
  /\ Known(last.id)
  /\ TaskOf(last.id).status = IN_PROGRESS
  /\ TaskOf(last.id).actualCompletionDate = undefined
  /\ TaskOf(last.id).actualStartDate = undefined
  /\ Len(TaskOf(last.id).steps) > 0
  /\ \A k \in 1..Len(TaskOf(last.id).steps) : ~TaskOf(last.id).steps[k].completed

\* C10: updateTaskStep and setAllStepsStatus(id, true) leave the task's status
\* and actualCompletionDate unchanged, also when every step is completed afterwards.
C10_StepsNeverComplete ==
  [][(/\ last'.op \in {"updateTaskStep", "setAllStepsStatus"}
      /\ last'.res = "ok"
      /\ last'.op = "setAllStepsStatus" => setAllStepsStatus(last'.id, TRUE)) =>
       /\ TaskAfter(last'.id).status = TaskOf(last'.id).status
       /\ TaskAfter(last'.id).actualCompletionDate =
            TaskOf(last'.id).actualCompletionDate]_vars

\* every step of an open task is completed right after a step update
C10_Witness ==
  /\ last.op = "updateTaskStep" /\ last.res = "ok"
  /\ Known(last.id)
  /\ Len(TaskOf(last.id).steps) > 0
  /\ \A k \in 1..Len(TaskOf(last.id).steps) : TaskOf(last.id).steps[k].completed
  /\ TaskOf(last.id).status \in {PENDING, IN_PROGRESS}
  /\ TaskOf(last.id).actualCompletionDate = undefined
(* ------------------------- step list properties ----------------------- *)
\* a step without its order
StepContent(step) == [f \in DOMAIN step \ {"order"} |-> step[f]]
ContentOf(steps) == [k \in 1..Len(steps) |-> StepContent(steps[k])]
WithoutStep(steps, stepId) == SelectSeq(steps, LAMBDA s : s.id # stepId)
SortedByOrder(steps) ==
  \A j, k \in 1..Len(steps) : j < k => steps[j].order <= steps[k].order

C14_CreateValidates ==
  [][last'.op = "createTask" =>
       \A call \in CreateCalls :
         createTaskCalled(call) =>
           IF \/ call.title = "" \/ call.description = ""
              \/ call.priority < 1 \/ call.priority > 5
           THEN last'.res = "ValidationError" /\ tasks' = tasks
           ELSE last'.res = "ok" /\ Len(tasks') = Len(tasks) + 1]_vars

\* C14 witness: tasks of priority 1 and 5 are in the store and the last
\* createTask call was refused
C14_Witness ==
  /\ last.op = "createTask" /\ last.res = "ValidationError"
  /\ \E i, j \in 1..Len(tasks) : tasks[i].priority = 1 /\ tasks[j].priority = 5

\* C16: a successful createTask appends one task at the end of the store with
\* status PENDING, createdAt = updatedAt = now and neither actualStartDate nor
\* actualCompletionDate; each input step without an order gets its 1-based
\* position as order and each input step without a completed flag gets false.
C16_CreateAppendsPending ==
  [][(last'.op = "createTask" /\ last'.res = "ok") =>
       /\ Len(tasks') = Len(tasks) + 1
       /\ SubSeq(tasks', 1, Len(tasks)) = tasks
       /\ LET task == tasks'[Len(tasks')] IN
          /\ task.id = last'.id
          /\ task.status = PENDING
          /\ task.createdAt = now /\ task.updatedAt = now
          /\ task.actualStartDate = undefined
          /\ task.actualCompletionDate = undefined
          /\ \A call \in CreateCalls :
               createTaskCalled(call) =>
                 LET steps == call.steps IN
                 /\ Len(task.steps) = Len(steps)
                 /\ \A k \in 1..Len(steps) :
                      /\ task.steps[k].description = steps[k].description
                      /\ task.steps[k].order =
                           (IF "order" \in DOMAIN steps[k] THEN steps[k].order ELSE k)
                      /\ task.steps[k].completed =
                           (IF "completed" \in DOMAIN steps[k]
                            THEN steps[k].completed ELSE FALSE)]_vars

\* C16 witness: a second task was created, with two steps of which the first
\* came without order and completed flag
C16_Witness ==
  /\ last.op = "createTask" /\ last.res = "ok"
  /\ Len(tasks) >= 2
  /\ LET task == tasks[Len(tasks)] IN
     /\ task.id = last.id /\ task.status = PENDING
     /\ task.createdAt > 0 /\ task.updatedAt = task.createdAt
     /\ Len(task.steps) >= 1
     /\ task.steps[1].order = 1 /\ ~task.steps[1].completed

\* C17: a task created with a dueDate carries that dueDate, in the task
\* createTask returns and in the stored task, as it does for plannedStartDate.
C17_CreateKeepsDueDate ==
  [][(last'.op = "createTask" /\ last'.res = "ok") =>
       \A call \in CreateCalls :
         createTaskCalled(call) =>
           /\ tasks'[Len(tasks')].plannedStartDate = call.plannedStartDate
           /\ tasks'[Len(tasks')].dueDate = call.dueDate]_vars
C15_PriorityInRange ==
  \A i \in 1..Len(tasks) : tasks[i].priority >= 1 /\ tasks[i].priority <= 5

LookupOps ==
  {"getTaskById", "updateTask", "completeTask", "startTask", "addTaskStep",
   "setAllStepsStatus", "updateTaskStep", "deleteTaskStep", "deleteTask"}
HasStep(task, stepId) == \E k \in 1..Len(task.steps) : task.steps[k].id = stepId

\* C18: an id that is not found is not an error: getTaskById, updateTask,
\* completeTask, startTask, addTaskStep, setAllStepsStatus and deleteTask with
\* an unknown task id, and updateTaskStep and deleteTaskStep with an unknown
\* task id or step id, return absent and leave the store unchanged.
C18_UnknownIdAbsent ==
  [][/\ (last'.op \in LookupOps /\ ~Known(last'.id)) =>
          (last'.res = "absent" /\ tasks' = tasks)
     /\ (last'.op \in {"updateTaskStep", "deleteTaskStep"} /\ Known(last'.id)) =>
          \A stepId \in Ids :
            (/\ ~HasStep(TaskOf(last'.id), stepId)
             /\ \/ deleteTaskStep(last'.id, stepId)
                \/ \E updates \in StepUpdates : updateTaskStep(last'.id, stepId, updates))
            => (last'.res = "absent" /\ tasks' = tasks)]_vars

\* C18 witness: updateTaskStep was called on a stored task that has steps,
\* with an id that is none of its steps'
C18_Witness ==
  /\ last.op = "updateTaskStep" /\ last.res = "absent"
  /\ Known(last.id) /\ Len(TaskOf(last.id).steps) >= 1

\* C19: deleteTask(id) for an existing id returns true and removes exactly
\* that task for good: the id is absent from the store afterwards and no
\* later operation brings it back, and the other tasks and their relative
\* order are unchanged; for an unknown id it returns false.
C19_DeleteTask ==
  [][/\ last'.op = "deleteTask" =>
          IF Known(last'.id)
          THEN /\ last'.res = "ok"
               /\ ~KnownAfter(last'.id)
               /\ tasks' = SelectSeq(tasks, LAMBDA t : t.id # last'.id)
               /\ Len(tasks') = Len(tasks) - 1
          ELSE last'.res = "absent" /\ tasks' = tasks
     /\ \A id \in Ids : (id < nextId /\ ~Known(id)) => ~KnownAfter(id)
     /\ nextId' >= nextId
     /\ \A id \in Ids : Known(id) => id < nextId]_vars

\* C19 witness: the first of two tasks was deleted and the second is still
\* in the store
C19_Witness ==
  /\ last.op = "deleteTask" /\ last.res = "ok" /\ ~Known(last.id)
  /\ Len(tasks) >= 1
  /\ tasks[1].id > last.id
(* ----------------------------- search properties ---------------------- *)
\* a date the task carries lies within what the filter gives of [from, to]
Within(date, filter, from, to) ==
  date # undefined =>
    /\ from \in DOMAIN filter => date >= filter[from]
    /\ to \in DOMAIN filter => date <= filter[to]

\* the task satisfies every field present in the filter
Satisfies(task, filter) ==
  /\ "status" \in DOMAIN filter => task.status = filter.status
  /\ "tags" \in DOMAIN filter =>
       \A k \in 1..Len(filter.tags) : \E j \in 1..Len(task.tags) : task.tags[j] = filter.tags[k]
  /\ "priority" \in DOMAIN filter => task.priority = filter.priority
  /\ Within(task.dueDate, filter, "dueDateFrom", "dueDateTo")
  /\ Within(task.plannedStartDate, filter, "plannedStartDateFrom", "plannedStartDateTo")
  /\ Within(task.createdAt, filter, "createdFrom", "createdTo")
  /\ "searchText" \in DOMAIN filter =>
       LET text == toLowerCase(filter.searchText) IN
       \/ includes(toLowerCase(task.title), text)
       \/ includes(toLowerCase(task.description), text)
       \/ \E k \in 1..Len(task.steps) : includes(toLowerCase(task.steps[k].description), text)

\* C20: searchTasks(filter) returns, in store order, exactly the tasks that
\* satisfy every field present in the filter: status equal, every listed tag
\* contained, priority equal, dueDate, plannedStartDate and createdAt within
\* their ranges, searchText a case-insensitive substring of the title, the
\* description or some step description; an empty filter returns all tasks.
C20_SearchConjunction ==
  last.op = "searchTasks" =>
    last.found = SelectSeq(tasks, LAMBDA task : Satisfies(task, last.filter))
\* the set of the elements of a list
Range(seq) == { seq[k] : k \in 1..Len(seq) }

\* C21: searchTasks with a non-empty tags filter returns only tasks whose tag
\* list contains every tag of the filter, and returns every such task when
\* the filter has no other field.
C21_TagsSuperset ==
  (last.op = "searchTasks" /\ "tags" \in DOMAIN last.filter /\ last.filter.tags # <<>>) =>
    /\ \A k \in 1..Len(last.found) :
         Range(last.filter.tags) \subseteq Range(last.found[k].tags)
    /\ DOMAIN last.filter = {"tags"} =>
         last.found =
           SelectSeq(tasks, LAMBDA task : Range(last.filter.tags) \subseteq Range(task.tags))

\* C21 witness: a search on two tags kept a task that has both and left out
\* a task that has only one of them
C21_Witness ==
  /\ last.op = "searchTasks" /\ "tags" \in DOMAIN last.filter
  /\ Len(last.filter.tags) = 2
  /\ Len(last.found) = 1 /\ Len(tasks) = 2
  /\ \E i \in 1..Len(tasks) : Len(tasks[i].tags) = 1
(* --------------------------- time and report properties --------------- *)
\* the sum of the positive estimatedTime values of the first n steps
RECURSIVE PositiveEstimates(_, _)
PositiveEstimates(steps, n) ==
  IF n = 0 THEN 0
  ELSE PositiveEstimates(steps, n - 1)
       + (IF steps[n].estimatedTime > 0 THEN steps[n].estimatedTime ELSE 0)
EstimatedTotal(task) == PositiveEstimates(task.steps, Len(task.steps))
StartReference(task) ==
  IF task.actualStartDate # undefined THEN task.actualStartDate ELSE task.createdAt
TimeDifferenceDefined(task) ==
  task.actualCompletionDate # undefined /\ EstimatedTotal(task) > 0

\* C22: timeDifferenceMinutes(task) is absent unless the task has an
\* actualCompletionDate and the sum of its steps' positive estimatedTime is
\* above 0; otherwise it is (actualCompletionDate - (actualStartDate if
\* present, else createdAt)) in minutes minus that sum; workDurationMinutes
\* is 0 whenever actualCompletionDate is absent.
C22_TimeDifference ==
  last.op = "getTaskTimeInfo" =>
    LET task == TaskOf(last.id)
        info == last.info IN
    /\ info.timeDifference.defined <=> TimeDifferenceDefined(task)
    /\ info.timeDifference.defined =>
         (info.timeDifference.value + EstimatedTotal(task)) * MsPerMinute
           = task.actualCompletionDate - StartReference(task)
    /\ task.actualCompletionDate = undefined => info.actualWorkTime = 0

\* C22 witness: a task with estimates 30 + 60 that was started and completed
\* 95 minutes after its start has the time difference +5
C22_Witness ==
  /\ last.op = "getTaskTimeInfo"
  /\ LET task == TaskOf(last.id) IN
     /\ Len(task.steps) = 2
     /\ task.steps[1].estimatedTime = 30 /\ task.steps[2].estimatedTime = 60
     /\ task.actualStartDate > task.createdAt
     /\ task.actualCompletionDate = task.actualStartDate + 95 * MsPerMinute
  /\ last.info.timeDifference = number(5)
Abs(n) == IF n < 0 THEN -n ELSE n

\* the bucket of a table entry: the ratio |difference| / estimate against 0.20
Bucket(entry) ==
  IF Abs(entry.timeDifference) * 5 <= entry.estimatedTotalTime THEN "accurate"
  ELSE IF entry.timeDifference > 0 THEN "underestimated"
  ELSE "overestimated"

\* C23: every task of the report's time-difference table is counted in
\* exactly one of the three accuracy buckets (accurate when |difference| /
\* estimate <= 0.20, underestimated when the difference is positive and the
\* ratio above 0.20, overestimated when it is negative and the ratio above
\* 0.20), so the three counts add up to the number of tasks in the table.
C23_AccuracyBuckets ==
  last.op = "generateReportWithDateRange" =>
    LET table == last.analysis.times.taskTimeDifferences
        InBucket(b) == Cardinality({ k \in 1..Len(table) : Bucket(table[k]) = b }) IN
    /\ last.accuracy.accurateTasks = InBucket("accurate")
    /\ last.accuracy.underestimatedTasks = InBucket("underestimated")
    /\ last.accuracy.overestimatedTasks = InBucket("overestimated")
    /\ last.accuracy.accurateTasks + last.accuracy.underestimatedTasks
         + last.accuracy.overestimatedTasks = Len(table)

\* C23 witness: the table holds a difference of +5 on an estimate of 90,
\* counted accurate, and a task outside the 20% band
C23_Witness ==
  /\ last.op = "generateReportWithDateRange"
  /\ LET table == last.analysis.times.taskTimeDifferences IN
     /\ Len(table) = 2
     /\ \E k \in 1..2 : table[k].timeDifference = 5 /\ table[k].estimatedTotalTime = 90
  /\ last.accuracy.accurateTasks = 1
  /\ last.accuracy.underestimatedTasks + last.accuracy.overestimatedTasks = 1
\* the time difference of a task for which it is defined, in minutes
TimeDifferenceOf(task) ==
  (task.actualCompletionDate - StartReference(task)) \div MsPerMinute - EstimatedTotal(task)

RECURSIVE SumOfDifferences(_)
SumOfDifferences(ts) ==
  IF ts = <<>> THEN 0 ELSE TimeDifferenceOf(Head(ts)) + SumOfDifferences(Tail(ts))

\* C24: the aggregate averageTimeDifference and the per-task breakdown are
\* computed over exactly the tasks for which timeDifferenceMinutes is
\* defined: a task with no step carrying a positive estimatedTime, or without
\* actualCompletionDate, is excluded from both, and the average is the mean
\* of timeDifferenceMinutes over the included tasks.
C24_AverageOverDefined ==
  last.op \in {"analyzeTaskStatus", "generateReportWithDateRange"} =>
    LET included == SelectSeq(last.input, TimeDifferenceDefined)
        times == last.analysis.times IN
    /\ Len(times.taskTimeDifferences) = Len(included)
    /\ \A k \in 1..Len(included) :
         /\ times.taskTimeDifferences[k].taskId = included[k].id
         /\ times.taskTimeDifferences[k].timeDifference = TimeDifferenceOf(included[k])
    /\ times.averageTimeDifference.defined <=> included # <<>>
    /\ times.averageTimeDifference.defined =>
         /\ times.averageTimeDifference.total = SumOfDifferences(included)
         /\ times.averageTimeDifference.count = Len(included)
\* C25: the aggregator's overdue count is the number of tasks of its input
\* whose dueDate is before now and whose status is neither COMPLETED nor
\* CANCELLED, and its four per-status counts add up to the number of tasks
\* of its input.
C25_OverdueAndStatusCounts ==
  last.op \in {"analyzeTaskStatus", "generateReportWithDateRange"} =>
    LET input == last.input
        counts == last.analysis.counts IN
    /\ counts.overdueTasksCount =
         Cardinality({ k \in 1..Len(input) :
                        /\ input[k].dueDate # undefined /\ input[k].dueDate < now
                        /\ input[k].status \notin {COMPLETED, CANCELLED} })
    /\ counts.completedTasks + counts.pendingTasks + counts.inProgressTasks
         + counts.cancelledTasks = Len(input)

\* C25 witness: of two tasks past their due date the aggregator counts only
\* the one that is still pending
C25_Witness ==
  /\ last.op = "analyzeTaskStatus"
  /\ Len(last.input) = 2
  /\ \A k \in 1..2 : last.input[k].dueDate # undefined /\ last.input[k].dueDate < now
  /\ last.analysis.counts.overdueTasksCount = 1
  /\ last.analysis.counts.pendingTasks = 1
\* 00:00:00.000 and 23:59:59.999 of a day, on the clock of the host
DayBegins(day, offset) == day * MsPerDay - offset
DayEnds(day, offset) == (day + 1) * MsPerDay - 1 - offset

\* C26: generateReportWithDateRange(startDate, endDate) reports on exactly
\* the tasks whose createdAt lies between startDate at 00:00:00.000 and
\* endDate at 23:59:59.999, both bounds inclusive.
C26_DateRangeInclusive ==
  last.op = "generateReportWithDateRange" =>
    last.input =
      SelectSeq(tasks, LAMBDA task :
        /\ last.startDate # undefined =>
             task.createdAt >= DayBegins(last.startDate, last.offset)
        /\ last.endDate # undefined =>
             task.createdAt <= DayEnds(last.endDate, last.offset))

\* C30: a task enters IN_PROGRESS only by startTask from PENDING or by
\* setAllStepsStatus(id, false) from COMPLETED; updateTask changes a status
\* only to cancel a PENDING or IN_PROGRESS task and never moves a task to
\* IN_PROGRESS or back to PENDING.
C30_StatusTransitions ==
  [][\A id \in Ids :
       (Known(id) /\ KnownAfter(id) /\ TaskAfter(id).status # TaskOf(id).status) =>
         /\ TaskAfter(id).status = IN_PROGRESS =>
              \/ Called("startTask", id) /\ TaskOf(id).status = PENDING
              \/ Called("setAllStepsStatus", id) /\ TaskOf(id).status = COMPLETED
         /\ Called("updateTask", id) =>
              /\ TaskOf(id).status \in {PENDING, IN_PROGRESS}
              /\ TaskAfter(id).status = CANCELLED]_vars

\* the values a handler can hand back to its caller
Responses == {"success", "notFound", "failure"}

\* C27: every tool invocation ends with a response value, a success payload
\* or a failure text: a validation error, a state-transition error or a
\* storage error raised under the handler is caught and rendered as text,
\* never propagated out of the handler.
C27_AlwaysResponds ==
  \A c \in Callers :
    inFlight[c].pc = "returned" =>
      /\ inFlight[c].response \in Responses
      /\ inFlight[c].res \in Errors => inFlight[c].response = "failure"

\* a handler has answered a storage error of the manager with its failure text
C27_Witness ==
  \E c \in Callers :
    /\ inFlight[c].pc = "returned"
    /\ inFlight[c].call.tool = "taskUpdate"
    /\ inFlight[c].res = "StorageError"
    /\ inFlight[c].response = "failure"

\* C28: when the save step of a mutating operation fails the operation ends in
\* failure and never returns the mutated task as a success; when the load step
\* fails no save is attempted; so a failed operation leaves the persisted task
\* collection as it was before the call.
C28_FailedOperationLeavesStore ==
  [][\A c \in Callers :
       LET rec == inFlight[c]
           after == inFlight'[c] IN
       /\ (rec.pc = "writeTasks" /\ ~(tasks' = rec.pending /\ ~damaged')) =>
            /\ after.pc = "returned"
            /\ after.res = "StorageError"
            /\ after.response = "failure"
       /\ (rec.pc \in {"readTasks", "writeTasks"} /\ after.pc = "returned"
             /\ after.res \in Errors) =>
            /\ tasks' = tasks
            /\ damaged' = damaged]_vars

\* the store after a call holds the call's mutation and, beyond it, what the
\* store held just before
Present(call, before, after) ==
  CASE call.tool = "taskUpdate" ->
         /\ Len(after) = Len(before)
         /\ \A k \in 1..Len(before) :
              IF before[k].id = call.id
              THEN \A f \in DOMAIN before[k] \ {"updatedAt"} :
                     after[k][f] = IF f \in DOMAIN call.updates
                                   THEN call.updates[f] ELSE before[k][f]
              ELSE after[k] = before[k]
    [] call.tool = "taskDelete" ->
         after = SelectSeq(before, LAMBDA task : task.id # call.id)

\* C29: there is no locking, and two mutating operations whose
\* load-mutate-save sequences overlap can lose an update (C29_LostUpdate is
\* such an outcome); when an operation overlaps no other, its successful
\* mutation is in the store afterwards, with everything the store held.
C29_SingleWriterKeepsMutations ==
  [][\A c \in Callers :
       LET rec == inFlight[c]
           after == inFlight'[c] IN
       (rec.pc = "writeTasks" /\ ~rec.overlapped
          /\ after.pc = "returned" /\ after.res = "ok") =>
         Present(rec.call, tasks, tasks')]_vars

\* both loaded, then both saved: both calls have reported success and the
\* store holds the update of one of them only
C29_LostUpdate ==
  /\ inFlight[1].pc = "returned" /\ inFlight[1].res = "ok"
  /\ inFlight[1].call = [tool |-> "taskUpdate", id |-> 1, updates |-> [title |-> "t2"]]
  /\ inFlight[2].pc = "returned" /\ inFlight[2].res = "ok"
  /\ inFlight[2].call = [tool |-> "taskUpdate", id |-> 1, updates |-> [priority |-> 5]]
  /\ TaskOf(1).priority = 5
  /\ TaskOf(1).title = "t1"

\* the operations that change one task and keep it in the store
TaskMutations ==
  {"updateTask", "completeTask", "startTask", "addTaskStep", "updateTaskStep",
   "deleteTaskStep", "setAllStepsStatus"}

\* C31: every stored task has updatedAt >= createdAt, createdAt never changes
\* after creation, and every successful mutating operation on a task sets that
\* task's updatedAt to the time of the call, also when the update itself
\* carries an updatedAt.
C31_UpdatedAtFollowsCalls ==
  [][/\ \A k \in 1..Len(tasks') : tasks'[k].updatedAt >= tasks'[k].createdAt
     /\ \A id \in Ids :
          /\ (Known(id) /\ KnownAfter(id)) =>
               TaskAfter(id).createdAt = TaskOf(id).createdAt
          /\ (last'.op \in TaskMutations /\ last'.id = id /\ last'.res = "ok") =>
               TaskAfter(id).updatedAt = now]_vars

\* an update that carried nothing but an updatedAt of its own has been stored
C31_Witness ==
  /\ last.op = "updateTask" /\ last.res = "ok"
  /\ Known(last.id)
  /\ TaskOf(last.id).title = "t1"
  /\ TaskOf(last.id).priority = 3
  /\ TaskOf(last.id).status = PENDING
  /\ TaskOf(last.id).updatedAt = now - 1
  /\ TaskOf(last.id).updatedAt > TaskOf(last.id).createdAt

\* C32: for a task created with steps that give no order, after any sequence
\* of addTaskStep calls without an order and deleteTaskStep calls, the steps
\* carry the orders 1..N, ascending in sequence, no two steps sharing one.
C32_OrdersContiguous ==
  \A i \in 1..Len(tasks) :
    \A k \in 1..Len(tasks[i].steps) : tasks[i].steps[k].order = k

\* a step was added after the created one, and the created one then deleted:
\* the added step has moved up to order 1
C32_Witness ==
  /\ last.op = "deleteTaskStep" /\ last.res = "ok"
  /\ Known(last.id)
  /\ Len(TaskOf(last.id).steps) = 1
  /\ TaskOf(last.id).steps[1].description = "d3"
  /\ TaskOf(last.id).steps[1].order = 1

\* C33: the plannedStartDate range of searchTasks is applied on its own: a
\* filter that gives plannedStartDateFrom and/or plannedStartDateTo and no
\* dueDate bound excludes every task whose plannedStartDate is present and
\* lies outside the range, whether or not the task has a dueDate.
C33_PlannedStartAlone ==
  (/\ last.op = "searchTasks"
   /\ DOMAIN last.filter \cap {"plannedStartDateFrom", "plannedStartDateTo"} # {}
   /\ DOMAIN last.filter \cap {"dueDateFrom", "dueDateTo"} = {}) =>
    \A k \in 1..Len(last.found) :
      Within(last.found[k].plannedStartDate, last.filter,
             "plannedStartDateFrom", "plannedStartDateTo")

\* C34: in every reachable state a task has an actualCompletionDate if and
\* only if its status is COMPLETED.
C34_CompletionDateIffCompleted ==
  \A k \in 1..Len(tasks) :
    tasks[k].actualCompletionDate # undefined <=> tasks[k].status = COMPLETED

\* C35: in every reachable state a task whose status is IN_PROGRESS has an
\* actualStartDate, including a task that was completed directly from PENDING
\* and then reset by setAllStepsStatus(id, false).
C35_InProgressHasStartDate ==
  \A k \in 1..Len(tasks) :
    tasks[k].status = IN_PROGRESS => tasks[k].actualStartDate # undefined

\* C36: for every task that has an actualCompletionDate, that date is not
\* earlier than the task's start reference (actualStartDate if present, else
\* createdAt), so the work duration is never negative.
C36_CompletionAfterStart ==
  \A k \in 1..Len(tasks) :
    tasks[k].actualCompletionDate # undefined =>
      /\ tasks[k].actualCompletionDate >=
           (IF tasks[k].actualStartDate # undefined
            THEN tasks[k].actualStartDate ELSE tasks[k].createdAt)
      /\ calculateTaskWorkTimeMs(tasks[k]) >= 0

\* C37: the two aggregators agree: for the same task list and the same clock
\* analyzeTaskStatus and analyzeFilteredTasks produce the same status counts,
\* overdue count, average time difference and per-task breakdown.
C37_AggregatorsAgree ==
  last.op \in {"analyzeTaskStatus", "generateReportWithDateRange"} =>
    /\ last.analysis = analysisOf(last.input, managerEntries(last.input))
    /\ last.analysis = analysisOf(last.input, reportEntries(last.input))

\* C38: the report marks a task as overdue in its detail section only if that
\* task is counted in the aggregator's overdue count: a task with a past
\* dueDate and status COMPLETED or CANCELLED is never marked overdue.
C38_MarkedOnlyIfCounted ==
  last.op = "generateReportWithDateRange" =>
    /\ \A k \in last.markedOverdue :
         last.input[k].status \notin {COMPLETED, CANCELLED}
    /\ Cardinality(last.markedOverdue) <= last.analysis.counts.overdueTasksCount

\* C39: whenever TaskCompleter.completeTask(taskId) reports success, the
\* stored task has status COMPLETED, an actualCompletionDate and every step
\* completed, whatever its status and steps were before the call.
C39_CompleterCompletesAll ==
  [][\A c \in Callers :
       LET after == inFlight'[c] IN
       (/\ inFlight[c].pc # "returned" /\ after.pc = "returned"
        /\ after.call.tool = Completer /\ after.response = "success") =>
         /\ KnownAfter(after.call.id)
         /\ TaskAfter(after.call.id).status = COMPLETED
         /\ TaskAfter(after.call.id).actualCompletionDate # undefined
         /\ \A k \in 1..Len(TaskAfter(after.call.id).steps) :
              TaskAfter(after.call.id).steps[k].completed]_vars

\* C40: every mutating operation addressed to one task id leaves every other
\* task of the store unchanged and keeps the number and the order of the
\* tasks; only createTask adds a task, at the end, and only deleteTask
\* removes one.
C40_OtherTasksUntouched ==
  [][/\ last'.op \in TaskMutations =>
          /\ Len(tasks') = Len(tasks)
          /\ \A k \in 1..Len(tasks) :
               /\ tasks'[k].id = tasks[k].id
               /\ tasks[k].id # last'.id => tasks'[k] = tasks[k]
     /\ Len(tasks') > Len(tasks) =>
          /\ last'.op = "createTask"
          /\ Len(tasks') = Len(tasks) + 1
          /\ SubSeq(tasks', 1, Len(tasks)) = tasks
     /\ Len(tasks') < Len(tasks) =>
          /\ last'.op = "deleteTask"
          /\ tasks' = SelectSeq(tasks, LAMBDA t : t.id # last'.id)
          /\ Len(tasks') = Len(tasks) - 1
     /\ last'.op \notin TaskMutations \cup {"createTask", "deleteTask"} =>
          tasks' = tasks]_vars

\* the second of two stored tasks has had its steps set and is COMPLETED,
\* the first one is as createTask left it
C40_Witness ==
  /\ Len(tasks) = 2
  /\ last.op = "setAllStepsStatus" /\ last.res = "ok"
  /\ last.id = tasks[2].id
  /\ tasks[2].updatedAt = now - 1
  /\ Len(tasks[2].steps) = 1 /\ tasks[2].steps[1].completed
  /\ tasks[1].status = PENDING
  /\ tasks[1].updatedAt = tasks[1].createdAt
  /\ tasks[1].steps = <<>>
====
